---------------------------- MODULE Spec2Model ----------------------------
(***************************************************************************)
(* A model of src/reference/pdf_noteshrink.py: the colour utilities        *)
(* (quantize, pack_rgb, unpack_rgb, get_bg_color, rgb_to_sv, get_fg_mask), *)
(* the palette builder (get_palette), the palette applier (apply_palette), *)
(* the palette post-processing of save_png, and the page loop of           *)
(* process_images_with_noteshrink.                                         *)
(*                                                                         *)
(* A numpy array is a record [dtype, data]; an image also carries its      *)
(* spatial shape (h, w) and holds its pixels in row-major order.  A call   *)
(* that may raise returns a record [err, val]: err = "none" on success.    *)
(***************************************************************************)
EXTENDS Integers, Sequences, FiniteSets

VARIABLES
    \* process_images_with_noteshrink
    images,          \* the page images read from image_files
    options,         \* the options dictionary
    pc,              \* position in process_images_with_noteshrink
    idx,             \* loop index (1-based) of the running for loop
    all_samples,     \* list of per-page sample arrays (global mode)
    global_palette,  \* the array global_palette is bound to, or NoPalette
    labels,          \* label map of the page processed last
    written,         \* palette handed to putpalette for the page processed last
    err,             \* the exception that ended the run, or "none"
    calls,           \* history: the calls made so far, in order
    \* a single call of one function on a drawn input
    u_op,            \* the function applied
    u_in,            \* its arguments
    u_out,           \* its result
    u_pc             \* "ready" before the call, "done" after

vars == <<images, options, pc, idx, all_samples, global_palette, labels,
          written, err, calls, u_op, u_in, u_out, u_pc>>

pipeVars == <<images, options, pc, idx, all_samples, global_palette, labels,
              written, err, calls>>

unitVars == <<u_op, u_in, u_out, u_pc>>

----------------------------------------------------------------------------
\* Results of calls that may raise.

Ok(v) == [err |-> "none", val |-> v]

Raise(e) == [err |-> e, val |-> <<>>]

----------------------------------------------------------------------------
\* Sequence helpers.

Range(s) == {s[i] : i \in 1..Len(s)}

RECURSIVE Flatten(_)
Flatten(ss) == IF Len(ss) = 0 THEN <<>> ELSE Head(ss) \o Flatten(Tail(ss))

RECURSIVE SelectIdx(_, _)
\* s[mask]: the elements of s at the positions where mask is TRUE, in order.
SelectIdx(s, mask) ==
    IF Len(s) = 0 THEN <<>>
    ELSE (IF Head(mask) THEN <<Head(s)>> ELSE <<>>) \o SelectIdx(Tail(s), Tail(mask))

SeqsUpTo(S, n) == UNION {[1..k -> S] : k \in 1..n}

\* The orderings of k distinct indices out of 1..n (empty when k > n).
InjSeqs(n, k) == {s \in [1..k -> 1..n] : \A i, j \in 1..k : i # j => s[i] # s[j]}

Max(S) == CHOOSE x \in S : \A y \in S : y <= x

Min(S) == CHOOSE x \in S : \A y \in S : x <= y

Abs(x) == IF x < 0 THEN -x ELSE x

----------------------------------------------------------------------------
\* Integer bit operations on non-negative integers (Python int / numpy int64).

RECURSIVE Pow2(_)
Pow2(n) == IF n = 0 THEN 1 ELSE 2 * Pow2(n - 1)

Shl(x, s) == x * Pow2(s)

Shr(x, s) == x \div Pow2(s)

RECURSIVE BitOr(_, _)
BitOr(x, y) ==
    IF x = 0 THEN y
    ELSE IF y = 0 THEN x
    ELSE (IF x % 2 = 1 \/ y % 2 = 1 THEN 1 ELSE 0) + 2 * BitOr(x \div 2, y \div 2)

RECURSIVE BitAnd(_, _)
BitAnd(x, y) ==
    IF x = 0 \/ y = 0 THEN 0
    ELSE (IF x % 2 = 1 /\ y % 2 = 1 THEN 1 ELSE 0) + 2 * BitAnd(x \div 2, y \div 2)

----------------------------------------------------------------------------
\* numpy arrays of pixels.

Arr(dtype, data) == [dtype |-> dtype, data |-> data]

\* ndarray.astype: a cast to uint8 wraps modulo 256; int holds every value here.
AsType(a, dtype) ==
    IF dtype = "uint8"
    THEN Arr("uint8", [i \in 1..Len(a.data) |-> [c \in 1..3 |-> a.data[i][c] % 256]])
    ELSE Arr(dtype, a.data)

\* bits_per_channel=None
NoneArg == -1

DefaultBits == 6

QuantizeVal_fullbin(x, bits) ==
    LET shift == 8 - bits
    IN  Shl(Shr(x, shift), shift) + Shl(1, shift)

\* One channel value through ((x >> shift) << shift) + halfbin.
QuantizeVal(x, bits) ==
    LET shift == 8 - bits
        halfbin == Shr(Shl(1, shift), 1)
    IN  Shl(Shr(x, shift), shift) + halfbin

quantize(image, bits_per_channel) ==
    LET bits == IF bits_per_channel = NoneArg THEN DefaultBits ELSE bits_per_channel
    IN  IF image.dtype # "uint8" THEN Raise("AssertionError")
        ELSE Ok(Arr("int", [i \in 1..Len(image.data) |->
                              [c \in 1..3 |-> QuantizeVal(image.data[i][c], bits)]]))

PackVal(p) == BitOr(BitOr(Shl(p[1], 16), Shl(p[2], 8)), p[3])

pack_rgb_shift8(rgb) ==
    Arr("int", [i \in 1..Len(rgb.data) |->
                  BitOr(BitOr(Shl(rgb.data[i][1], 8), Shl(rgb.data[i][2], 8)),
                        rgb.data[i][3])])

\* The ndarray branch: rgb.astype(int), then R << 16 | G << 8 | B per row.
pack_rgb(rgb) ==
    LET data == AsType(rgb, "int").data
    IN  Arr("int", [i \in 1..Len(data) |-> PackVal(data[i])])

UnpackVal(packed) ==
    <<BitAnd(Shr(packed, 16), 255), BitAnd(Shr(packed, 8), 255), BitAnd(packed, 255)>>

\* The ndarray branch of unpack_rgb.
unpack_rgb(packed) ==
    IF packed.dtype # "int" THEN Raise("AssertionError")
    ELSE Ok(Arr("int", [i \in 1..Len(packed.data) |-> UnpackVal(packed.data[i])]))

\* np.unique(packed, return_counts=True); unique[counts.argmax()]: the most
\* frequent key, the smallest such key on a tie (unique is sorted, argmax
\* takes the first maximum).
Count(s, x) == Cardinality({i \in 1..Len(s) : s[i] = x})

ModeOf(s) ==
    LET best == Max({Count(s, x) : x \in Range(s)})
    IN  Min({x \in Range(s) : Count(s, x) = best})

get_bg_color_argmin(image, bits_per_channel) ==
    LET q == quantize(image, bits_per_channel)
    IN  IF q.err # "none" THEN q
        ELSE LET packed == pack_rgb(AsType(q.val, "int")).data
                 least == Min({Count(packed, x) : x \in Range(packed)})
             IN  IF Len(packed) = 0 THEN Raise("ValueError")
                 ELSE Ok(UnpackVal(Min({x \in Range(packed) : Count(packed, x) = least})))

\* Returns the tuple unpack_rgb gives for the scalar packed_mode; argmax of an
\* empty counts array raises ValueError.
get_bg_color(image, bits_per_channel) ==
    LET q == quantize(image, bits_per_channel)
    IN  IF q.err # "none" THEN q
        ELSE LET packed == pack_rgb(AsType(q.val, "int")).data
             IN  IF Len(packed) = 0 THEN Raise("ValueError")
                 ELSE Ok(UnpackVal(ModeOf(packed)))

----------------------------------------------------------------------------
\* rgb_to_sv and get_fg_mask.  Saturation and value are the rationals the
\* float32 code approximates: s = (cmax - cmin) / cmax (0 when cmax = 0),
\* v = cmax / 255.  A threshold is a rational [n, d].

Rat(n, d) == [n |-> n, d |-> d]

\* |a - b| >= t for rationals with positive denominators.
AbsDiffGE(a, b, t) == Abs(a.n * b.d - b.n * a.d) * t.d >= t.n * a.d * b.d

rgb_to_sv(rgb) ==
    LET cmax == Max({rgb[1], rgb[2], rgb[3]})
        cmin == Min({rgb[1], rgb[2], rgb[3]})
        delta == cmax - cmin
    IN  [s |-> IF cmax = 0 THEN Rat(0, 1) ELSE Rat(delta, cmax),
         v |-> Rat(cmax, 255)]

\* -v / -s defaults of the argument parser.
DefaultValueThreshold == Rat(1, 4)

DefaultSatThreshold == Rat(1, 5)

\* samples is the sequence of pixels; the mask has one boolean per pixel.
get_fg_mask(bg_color, samples, value_threshold, sat_threshold) ==
    LET bg == rgb_to_sv(bg_color)
    IN  [i \in 1..Len(samples) |->
            LET sv == rgb_to_sv(samples[i])
            IN  AbsDiffGE(bg.v, sv.v, value_threshold)
                \/ AbsDiffGE(bg.s, sv.s, sat_threshold)]

----------------------------------------------------------------------------
\* scipy.cluster.vq as called by get_palette and apply_palette.  A code book
\* entry is a centroid [s, n]: the mean s / n of n observations, kept as the
\* channel sums s and the count n so that distances compare exactly.

Centroid(rgb) == [s |-> rgb, n |-> 1]

Sq(x) == x * x

\* n^2 times the squared Euclidean distance from pixel p to centroid c.
Dist2Scaled(p, c) ==
    Sq(c.n * p[1] - c.s[1]) + Sq(c.n * p[2] - c.s[2]) + Sq(c.n * p[3] - c.s[3])

NotFarther(p, c1, c2) == Dist2Scaled(p, c1) * Sq(c2.n) <= Dist2Scaled(p, c2) * Sq(c1.n)

\* vq: the index (1-based) of the nearest code, the first one on a tie.
VqCode(p, book) ==
    Min({i \in 1..Len(book) : \A j \in 1..Len(book) : NotFarther(p, book[i], book[j])})

RECURSIVE SumCh(_, _, _)
SumCh(obs, members, ch) ==
    IF members = {} THEN 0
    ELSE LET i == Min(members) IN obs[i][ch] + SumCh(obs, members \ {i}, ch)

\* One pass of _kmeans: assign, recompute the means, drop the clusters
\* without members (code_book[has_members]).
LloydStep(obs, book) ==
    LET code == [i \in 1..Len(obs) |-> VqCode(obs[i], book)]
        members(k) == {i \in 1..Len(obs) : code[i] = k}
        mean(k) == [s |-> <<SumCh(obs, members(k), 1), SumCh(obs, members(k), 2),
                            SumCh(obs, members(k), 3)>>,
                    n |-> Cardinality(members(k))]
        keep == [k \in 1..Len(book) |-> members(k) # {}]
    IN  SelectIdx([k \in 1..Len(book) |-> mean(k)], keep)

\* Passes of _kmeans until the code book repeats (the distortion then repeats
\* and the loop ends), at most LloydFuel further passes.
LloydFuel == 4

RECURSIVE Lloyd(_, _, _)
Lloyd(obs, book, fuel) ==
    LET nb == LloydStep(obs, book)
    IN  IF fuel = 0 \/ nb = book THEN nb ELSE Lloyd(obs, nb, fuel - 1)

\* kmeans(obs, k): every run starts from k distinct observation rows drawn
\* without replacement (ValueError when there are fewer than k rows); the
\* book returned is that of one of the runs.
kmeans(obs, k) ==
    IF k < 1 \/ k > Len(obs) THEN {Raise("ValueError")}
    ELSE {Ok(Lloyd(obs, [j \in 1..k |-> Centroid(obs[g[j]])], LloydFuel)) :
             g \in InjSeqs(Len(obs), k)}

\* A float centroid through astype(np.uint8): truncation.
CenterToUint8(c) == [ch \in 1..3 |-> (c.s[ch] \div c.n) % 256]

----------------------------------------------------------------------------
\* get_palette.  The result is one of a set of outcomes, the choice being
\* that of kmeans' random start.  An outcome records, beside err and val (the
\* palette), what the call did: bg (the background found), kmeans_k (the
\* cluster count handed to kmeans, 0 when kmeans was not called) and fg (the
\* observations handed to kmeans).

Gray == <<128, 128, 128>>

PaletteOutcome(e, pal, bg, k, fg) ==
    [err |-> e, val |-> pal, bg |-> bg, kmeans_k |-> k, fg |-> fg]

get_palette(samples, num_colors, value_threshold, sat_threshold) ==
    LET bg == get_bg_color(samples, 6)
    IN  IF bg.err # "none" THEN {PaletteOutcome(bg.err, <<>>, <<>>, 0, <<>>)}
        ELSE
        LET fg_mask == get_fg_mask(bg.val, samples.data, value_threshold, sat_threshold)
            fg == SelectIdx(samples.data, fg_mask)
        IN  IF Len(fg) = 0
            THEN \* np.ones((num_colors, 3), dtype=np.uint8) * 128; palette[0] = bg_color
                 {PaletteOutcome("none",
                     Arr("uint8", [i \in 1..num_colors |-> IF i = 1 THEN bg.val ELSE Gray]),
                     bg.val, 0, <<>>)}
            ELSE \* np.vstack((bg_color, centers)).astype(np.uint8)
                 {IF r.err # "none"
                  THEN PaletteOutcome(r.err, <<>>, bg.val, num_colors - 1, fg)
                  ELSE PaletteOutcome("none",
                          Arr("uint8", <<bg.val>> \o [i \in 1..Len(r.val) |->
                                                        CenterToUint8(r.val[i])]),
                          bg.val, num_colors - 1, fg) :
                  r \in kmeans(fg, num_colors - 1)}

----------------------------------------------------------------------------
\* apply_palette.  An image is [h, w, dtype, data]; the label map returned is
\* [h, w, data] with the labels (0-based palette indices, stored as uint8)
\* in the order of the pixels.

Image(h, w, data) == [h |-> h, w |-> w, dtype |-> "uint8", data |-> data]

apply_palette_ones(img, palette, value_threshold, sat_threshold) ==
    LET bg_color == palette.data[1]
        fg_mask == get_fg_mask(bg_color, img.data, value_threshold, sat_threshold)
        book == [i \in 1..Len(palette.data) |-> Centroid(palette.data[i])]
    IN  [h |-> img.h, w |-> img.w,
         data |-> [i \in 1..Len(img.data) |->
                     IF fg_mask[i] THEN (VqCode(img.data[i], book) - 1) % 256 ELSE 1]]

apply_palette(img, palette, value_threshold, sat_threshold) ==
    LET bg_color == palette.data[1]
        fg_mask == get_fg_mask(bg_color, img.data, value_threshold, sat_threshold)
        book == [i \in 1..Len(palette.data) |-> Centroid(palette.data[i])]
    IN  [h |-> img.h, w |-> img.w,
         data |-> [i \in 1..Len(img.data) |->
                     IF fg_mask[i] THEN (VqCode(img.data[i], book) - 1) % 256 ELSE 0]]

----------------------------------------------------------------------------
\* save_png: the palette post-processing.  The result is [written, caller]:
\* the palette handed to putpalette, and the contents of the caller's palette
\* array when the call returns (astype and copy both make a new array, so the
\* caller's array is never written).

White == <<255, 255, 255>>

PaletteMin(pal) == Min({pal[i][c] : i \in 1..Len(pal), c \in 1..3})

PaletteMax(pal) == Max({pal[i][c] : i \in 1..Len(pal), c \in 1..3})

\* 255 * (palette - pmin) / (pmax - pmin) in float32, then astype(np.uint8):
\* the quotient of integers up to 65025 by one up to 255 never rounds across
\* an integer, so the cast truncates the exact quotient.
Saturate(pal) ==
    LET pmin == PaletteMin(pal)
        pmax == PaletteMax(pal)
    IN  IF pmax > pmin
        THEN [i \in 1..Len(pal) |->
                [c \in 1..3 |-> ((255 * (pal[i][c] - pmin)) \div (pmax - pmin)) % 256]]
        ELSE pal

save_png_inplace(labs, palette, saturate, white_bg) ==
    LET p1 == IF saturate THEN Saturate(palette.data) ELSE palette.data
        p2 == IF white_bg THEN [p1 EXCEPT ![1] = White] ELSE p1
    IN  [written |-> Arr("uint8", p2),
         caller |-> IF white_bg /\ ~saturate THEN Arr("uint8", p2) ELSE palette]

save_png_perchannel(labs, palette, saturate, white_bg) ==
    LET chmin(c) == Min({palette.data[i][c] : i \in 1..Len(palette.data)})
        chmax(c) == Max({palette.data[i][c] : i \in 1..Len(palette.data)})
        p1 == IF saturate
              THEN [i \in 1..Len(palette.data) |-> [c \in 1..3 |->
                      IF chmax(c) > chmin(c)
                      THEN (255 * (palette.data[i][c] - chmin(c))) \div (chmax(c) - chmin(c))
                      ELSE palette.data[i][c]]]
              ELSE palette.data
        p2 == IF white_bg THEN [p1 EXCEPT ![1] = White] ELSE p1
    IN  [written |-> Arr("uint8", p2), caller |-> palette]

save_png_white_first(labs, palette, saturate, white_bg) ==
    LET p1 == IF white_bg THEN [palette.data EXCEPT ![1] = White] ELSE palette.data
        p2 == IF saturate THEN Saturate(p1) ELSE p1
    IN  [written |-> Arr("uint8", p2), caller |-> palette]

save_png(labs, palette, saturate, white_bg) ==
    LET p1 == IF saturate THEN Saturate(palette.data) ELSE palette.data
        p2 == IF white_bg THEN [p1 EXCEPT ![1] = White] ELSE p1
    IN  [written |-> Arr("uint8", p2), caller |-> palette]

----------------------------------------------------------------------------
\* sample_pixels: int(num_pixels * sample_fraction) pixels of the image in
\* the order of a random shuffle; sample_fraction is a rational [n, d].

sample_pixels(img, sample_fraction) ==
    LET num_pixels == Len(img.data)
        num_samples == (num_pixels * sample_fraction.n) \div sample_fraction.d
    IN  {Arr("uint8", [j \in 1..num_samples |-> img.data[sh[j]]]) :
            sh \in InjSeqs(num_pixels, num_samples)}

----------------------------------------------------------------------------
\* Bounds and input pools.

MaxPages == 2
MaxColors == 3
MaxSamples == 4
MaxBgPixels == 3
MaxArea == 3
MaxPaletteLen == 2

Black == <<0, 0, 0>>
Red == <<255, 0, 0>>
Dark == <<10, 10, 10>>
Light == <<200, 200, 200>>

PixelPool == {White, Black, Red, Dark, Light}

EdgeChannels == {0, 1, 2, 127, 128, 129, 254, 255}

PagePool ==
    {Image(1, 3, <<White, White, Black>>),
     Image(1, 3, <<White, Red, White>>),
     Image(1, 2, <<White, White>>),
     Image(1, 1, <<Black>>)}

Fractions == {Rat(1, 2), Rat(1, 1)}

NoPalette == Arr("none", <<>>)

NoLabels == [h |-> 0, w |-> 0, data |-> <<>>]

----------------------------------------------------------------------------
\* process_images_with_noteshrink.

Ev(fn, page, smp, pal) == [fn |-> fn, page |-> page, smp |-> smp, pal |-> pal]

\* The calls one get_palette call makes, from its outcome o.
PaletteCalls(o, page, samples) ==
    <<Ev("get_palette", page, samples, NoPalette),
      Ev("get_bg_color", page, samples, NoPalette)>>
    \o (IF o.kmeans_k > 0 THEN <<Ev("kmeans", page, Arr("float32", o.fg), NoPalette)>>
        ELSE <<>>)
    \o (IF o.err = "none" THEN <<Ev("get_palette_ret", page, samples, o.val)>> ELSE <<>>)

UnitIdle ==
    /\ u_op = "none"
    /\ u_in = <<>>
    /\ u_out = <<>>
    /\ u_pc = "idle"

Init ==
    /\ images \in SeqsUpTo(PagePool, MaxPages)
    /\ options \in [num_colors : 2..MaxColors, saturate : BOOLEAN, white_bg : BOOLEAN,
                    global_palette : BOOLEAN, sample_fraction : Fractions,
                    value_threshold : {DefaultValueThreshold},
                    sat_threshold : {DefaultSatThreshold}]
    /\ pc = "start"
    /\ idx = 1
    /\ all_samples = <<>>
    /\ global_palette = NoPalette
    /\ labels = NoLabels
    /\ written = NoPalette
    /\ err = "none"
    /\ calls = <<>>
    /\ UnitIdle

\* global_palette = None; if options['global_palette']: all_samples = []
Begin ==
    /\ pc = "start"
    /\ pc' = IF options.global_palette THEN "gsample" ELSE "pages"
    /\ UNCHANGED <<images, options, idx, all_samples, global_palette, labels,
                   written, err, calls>>
    /\ UNCHANGED unitVars

\* One pass of the sampling loop of the global mode.
SampleForGlobal ==
    /\ pc = "gsample"
    /\ idx <= Len(images)
    /\ \E smp \in sample_pixels(images[idx], options.sample_fraction) :
          /\ all_samples' = Append(all_samples, smp)
          /\ calls' = Append(calls, Ev("sample_pixels", idx, smp, NoPalette))
    /\ idx' = idx + 1
    /\ UNCHANGED <<images, options, pc, global_palette, labels, written, err>>
    /\ UNCHANGED unitVars

\* np.vstack(all_samples), then get_palette on the pooled samples.
BuildGlobalPalette ==
    /\ pc = "gsample"
    /\ idx > Len(images)
    /\ LET samples == Arr("uint8", Flatten([i \in 1..Len(all_samples) |-> all_samples[i].data]))
       IN  \E o \in get_palette(samples, options.num_colors, options.value_threshold,
                               options.sat_threshold) :
              /\ calls' = calls \o PaletteCalls(o, 0, samples)
              /\ IF o.err # "none"
                 THEN /\ pc' = "raised"
                      /\ err' = o.err
                      /\ UNCHANGED <<global_palette, idx>>
                 ELSE /\ pc' = "pages"
                      /\ global_palette' = o.val
                      /\ idx' = 1
                      /\ err' = err
    /\ UNCHANGED <<images, options, all_samples, labels, written>>
    /\ UNCHANGED unitVars

\* apply_palette and save_png on page idx with the palette chosen for it.
LabelAndSave(palette, before) ==
    LET labs == apply_palette(images[idx], palette, options.value_threshold,
                              options.sat_threshold)
        sv == save_png(labs, palette, options.saturate, options.white_bg)
    IN  /\ labels' = labs
        /\ written' = sv.written
        /\ global_palette' = IF global_palette # NoPalette THEN sv.caller ELSE global_palette
        /\ calls' = before \o <<Ev("apply_palette", idx, NoPalette, palette),
                                Ev("save_png", idx, NoPalette, sv.written)>>
        /\ idx' = idx + 1
        /\ UNCHANGED <<pc, err>>

\* One pass of the page loop.
ProcessPage ==
    /\ pc = "pages"
    /\ idx <= Len(images)
    /\ IF global_palette # NoPalette
       THEN LabelAndSave(global_palette, calls)
       ELSE \E smp \in sample_pixels(images[idx], options.sample_fraction) :
            \E o \in get_palette(smp, options.num_colors, options.value_threshold,
                                 options.sat_threshold) :
               LET before == Append(calls, Ev("sample_pixels", idx, smp, NoPalette))
                             \o PaletteCalls(o, idx, smp)
               IN  IF o.err # "none"
                   THEN /\ pc' = "raised"
                        /\ err' = o.err
                        /\ calls' = before
                        /\ UNCHANGED <<idx, global_palette, labels, written>>
                   ELSE LabelAndSave(o.val, before)
    /\ UNCHANGED <<images, options, all_samples>>
    /\ UNCHANGED unitVars

\* return processed_files
Return ==
    /\ pc = "pages"
    /\ idx > Len(images)
    /\ pc' = "done"
    /\ UNCHANGED <<images, options, idx, all_samples, global_palette, labels,
                   written, err, calls>>
    /\ UNCHANGED unitVars

Next == Begin \/ SampleForGlobal \/ BuildGlobalPalette \/ ProcessPage \/ Return

Spec == Init /\ [][Next]_vars

----------------------------------------------------------------------------
\* Single calls of the functions on inputs drawn from the pools.

PipeIdle ==
    /\ images = <<>>
    /\ options = <<>>
    /\ pc = "unit"
    /\ idx = 0
    /\ all_samples = <<>>
    /\ global_palette = NoPalette
    /\ labels = NoLabels
    /\ written = NoPalette
    /\ err = "none"
    /\ calls = <<>>

\* quantize, pack_rgb / unpack_rgb and get_bg_color.
InitUtils ==
    /\ PipeIdle
    /\ u_pc = "ready"
    /\ u_out = <<>>
    /\ \/ /\ u_op = "quantize"
          /\ u_in \in [x : 0..255, bits : 1..8]
       \/ /\ u_op = "pack_rgb"
          /\ u_in \in [rgb : EdgeChannels \X EdgeChannels \X EdgeChannels]
       \/ /\ u_op = "get_bg_color"
          /\ u_in \in [image : SeqsUpTo(PixelPool, MaxBgPixels),
                       bits : {NoneArg, 1, 6, 8}]

\* quantize on a uint8 image, then quantize again on what it returned: as it
\* is (again) and cast back to uint8 (recast).
CallQuantize ==
    LET first == quantize(Arr("uint8", <<<<u_in.x, u_in.x, u_in.x>>>>), u_in.bits)
    IN  /\ u_op = "quantize"
        /\ u_pc = "ready"
        /\ u_out' = [first |-> first,
                      again |-> quantize(first.val, u_in.bits),
                      recast |-> quantize(AsType(first.val, "uint8"), u_in.bits)]
        /\ u_pc' = "done"
        /\ UNCHANGED <<u_op, u_in>>
        /\ UNCHANGED pipeVars

CallPackUnpack ==
    /\ u_op = "pack_rgb"
    /\ u_pc = "ready"
    /\ u_out' = unpack_rgb(pack_rgb(Arr("int", <<u_in.rgb>>)))
    /\ u_pc' = "done"
    /\ UNCHANGED <<u_op, u_in>>
    /\ UNCHANGED pipeVars

CallGetBgColor ==
    /\ u_op = "get_bg_color"
    /\ u_pc = "ready"
    /\ u_out' = get_bg_color(Arr("uint8", u_in.image), u_in.bits)
    /\ u_pc' = "done"
    /\ UNCHANGED <<u_op, u_in>>
    /\ UNCHANGED pipeVars

NextUtils == CallQuantize \/ CallPackUnpack \/ CallGetBgColor

SpecUtils == InitUtils /\ [][NextUtils]_vars

\* get_palette.
InitPalette ==
    /\ PipeIdle
    /\ u_pc = "ready"
    /\ u_out = <<>>
    /\ u_op = "get_palette"
    /\ u_in \in [samples : SeqsUpTo(PixelPool, MaxSamples), num_colors : 2..MaxColors]

CallGetPalette ==
    /\ u_op = "get_palette"
    /\ u_pc = "ready"
    /\ u_out' \in get_palette(Arr("uint8", u_in.samples), u_in.num_colors,
                              DefaultValueThreshold, DefaultSatThreshold)
    /\ u_pc' = "done"
    /\ UNCHANGED <<u_op, u_in>>
    /\ UNCHANGED pipeVars

NextPalette == CallGetPalette

SpecPalette == InitPalette /\ [][NextPalette]_vars

\* apply_palette.
ApplyPixels == {White, Black, Red}

ApplyColors == {<<254, 254, 254>>, <<2, 2, 2>>, Red, Gray}

Shapes == {hw \in (1..MaxArea) \X (1..MaxArea) : hw[1] * hw[2] <= MaxArea}

InitApply ==
    /\ PipeIdle
    /\ u_pc = "ready"
    /\ u_out = <<>>
    /\ u_op = "apply_palette"
    /\ \E hw \in Shapes :
          u_in \in [img : {Image(hw[1], hw[2], d) : d \in [1..(hw[1] * hw[2]) -> ApplyPixels]},
                    palette : {Arr("uint8", d) : d \in SeqsUpTo(ApplyColors, MaxPaletteLen)}]

CallApplyPalette ==
    /\ u_op = "apply_palette"
    /\ u_pc = "ready"
    /\ u_out' = apply_palette(u_in.img, u_in.palette, DefaultValueThreshold,
                            DefaultSatThreshold)
    /\ u_pc' = "done"
    /\ UNCHANGED <<u_op, u_in>>
    /\ UNCHANGED pipeVars

NextApply == CallApplyPalette

SpecApply == InitApply /\ [][NextApply]_vars

\* save_png.
SaveColors == {<<254, 254, 254>>, <<2, 2, 2>>, Dark, Light, Red, Gray, <<30, 90, 150>>}

InitSave ==
    /\ PipeIdle
    /\ u_pc = "ready"
    /\ u_out = <<>>
    /\ u_op = "save_png"
    /\ u_in \in [palette : {Arr("uint8", d) : d \in SeqsUpTo(SaveColors, MaxPaletteLen)},
                 saturate : BOOLEAN, white_bg : BOOLEAN]

CallSavePng ==
    /\ u_op = "save_png"
    /\ u_pc = "ready"
    /\ u_out' = save_png(NoLabels, u_in.palette, u_in.saturate, u_in.white_bg)
    /\ u_pc' = "done"
    /\ UNCHANGED <<u_op, u_in>>
    /\ UNCHANGED pipeVars

NextSave == CallSavePng

SpecSave == InitSave /\ [][NextSave]_vars

----------------------------------------------------------------------------
\* Properties.

Done(op) == u_op = op /\ u_pc = "done"

Distinct(s) == Cardinality(Range(s))

\* C1: whenever get_palette returns, on the fallback path or on the
\* clustering path, the palette has exactly num_colors entries.
C1_PaletteHasNumColors ==
    (Done("get_palette") /\ u_out.err = "none")
        => Len(u_out.val.data) = u_in.num_colors

\* C2: the label map of apply_palette has the image's spatial dimensions,
\* every label lies in [0, len(palette)), and every pixel get_fg_mask
\* classifies as background against palette[0] has label 0.
C2_LabelMap ==
    Done("apply_palette") =>
        LET img == u_in.img
            fg == get_fg_mask(u_in.palette.data[1], img.data, DefaultValueThreshold,
                              DefaultSatThreshold)
        IN  /\ u_out.h = img.h
            /\ u_out.w = img.w
            /\ Len(u_out.data) = img.h * img.w
            /\ \A i \in 1..Len(u_out.data) :
                  /\ u_out.data[i] \in 0..(Len(u_in.palette.data) - 1)
                  /\ ~fg[i] => u_out.data[i] = 0

\* A two-row image labelled against a palette of two colours, with a
\* background pixel and a foreground pixel that takes label 1.
C2_Witness ==
    /\ Done("apply_palette")
    /\ u_in.img.h = 2
    /\ Len(u_in.palette.data) = 2
    /\ \E i, j \in 1..Len(u_out.data) :
          /\ ~get_fg_mask(u_in.palette.data[1], u_in.img.data, DefaultValueThreshold,
                          DefaultSatThreshold)[i]
          /\ u_out.data[i] = 0
          /\ u_out.data[j] = 1

Majority(image, C) == 2 * Count(image, C) > Len(image)

UsedBits == IF u_in.bits = NoneArg THEN DefaultBits ELSE u_in.bits

\* C3 as stated: if more than half of the pixels share one exact colour C,
\* get_bg_color returns C.
C3_ReturnsMajorityColour ==
    Done("get_bg_color") =>
        \A C \in PixelPool :
            Majority(u_in.image, C) => (u_out.err = "none" /\ u_out.val = C)

\* C3 amended: if more than half of the pixels share one exact colour C,
\* get_bg_color returns the midpoint of C's bucket: every channel of the
\* result has the high bits_per_channel bits of C's channel and the bucket's
\* half width in the low bits.
C3_ReturnsQuantizedMajority ==
    Done("get_bg_color") =>
        \A C \in PixelPool :
            Majority(u_in.image, C) =>
                /\ u_out.err = "none"
                /\ \A c \in 1..3 :
                      LET width == Pow2(8 - UsedBits)
                      IN  /\ u_out.val[c] \div width = C[c] \div width
                          /\ u_out.val[c] % width = width \div 2

\* A three-pixel image, two of them white, at the default bit depth: the
\* background returned is (254, 254, 254).
C3_Witness ==
    /\ Done("get_bg_color")
    /\ u_in.bits = NoneArg
    /\ Len(u_in.image) = 3
    /\ Majority(u_in.image, White)
    /\ Black \in Range(u_in.image)
    /\ u_out.val = <<254, 254, 254>>

ZeroSampleCalls ==
    {i \in 1..Len(calls) : calls[i].fn = "sample_pixels" /\ Len(calls[i].smp.data) = 0}

\* C4: when sample_pixels draws zero samples the run fails with an
\* InvalidConfigurationError, and neither background detection nor
\* clustering is called afterwards on the empty sample set.
C4_ZeroSamplesFailFast ==
    \A i \in ZeroSampleCalls :
        /\ err = "InvalidConfigurationError"
        /\ \A j \in (i + 1)..Len(calls) :
              calls[j].fn \in {"get_bg_color", "kmeans"} => Len(calls[j].smp.data) > 0

\* C5: get_palette never hands kmeans a cluster count larger than the number
\* of distinct foreground sample colours: it caps the count or fails with a
\* DegenerateClusteringError.
C5_ClusterCountGuarded ==
    (Done("get_palette") /\ u_out.kmeans_k > 0) =>
        \/ u_out.kmeans_k <= Distinct(u_out.fg)
        \/ u_out.err = "DegenerateClusteringError"

CallsOf(fn) == {i \in 1..Len(calls) : calls[i].fn = fn}

PageCallsOf(fn, page) == {i \in CallsOf(fn) : calls[i].page = page}

\* C6: in global mode get_palette is called once, before any page is
\* labelled, on the pooled samples, and every apply_palette call receives
\* the palette it returned, whatever save_png did for the pages before; in
\* per-page mode get_palette is called once per page, on that page's own
\* samples, and the page is labelled with the palette it returned.
C6_PaletteCalls ==
    pc # "unit" =>
    IF options.global_palette
    THEN /\ Cardinality(CallsOf("get_palette")) <= 1
         /\ \A g \in CallsOf("get_palette") :
               /\ \A i \in 1..Len(images) : \E sp \in PageCallsOf("sample_pixels", i) : sp < g
               /\ calls[g].smp.data =
                     Flatten([i \in 1..Len(images) |->
                         calls[CHOOSE sp \in PageCallsOf("sample_pixels", i) : TRUE].smp.data])
         /\ \A a \in CallsOf("apply_palette") :
               \E r \in CallsOf("get_palette_ret") :
                   /\ r < a
                   /\ calls[a].pal = calls[r].pal
         /\ pc = "done" =>
               /\ Cardinality(CallsOf("get_palette")) = 1
               /\ \A i \in 1..Len(images) :
                     Cardinality(PageCallsOf("apply_palette", i)) = 1
    ELSE /\ \A i \in 1..Len(images) :
               /\ Cardinality(PageCallsOf("get_palette", i)) <= 1
               /\ \A g \in PageCallsOf("get_palette", i) :
                     \E sp \in PageCallsOf("sample_pixels", i) :
                         /\ sp < g
                         /\ calls[g].smp = calls[sp].smp
                         /\ \A k \in 1..Len(calls[sp].smp.data) :
                               calls[sp].smp.data[k] \in Range(images[i].data)
               /\ \A a \in PageCallsOf("apply_palette", i) :
                     \E r \in PageCallsOf("get_palette_ret", i) :
                         /\ r < a
                         /\ calls[a].pal = calls[r].pal
         /\ pc = "done" =>
               \A i \in 1..Len(images) :
                   /\ Cardinality(PageCallsOf("get_palette", i)) = 1
                   /\ Cardinality(PageCallsOf("apply_palette", i)) = 1

\* A finished two-page run in global mode with white_bg set and saturate
\* off, where save_png wrote a palette that differs from the shared one.
C6_Witness ==
    /\ pc = "done"
    /\ options.global_palette
    /\ options.white_bg
    /\ ~options.saturate
    /\ Len(images) = 2
    /\ Cardinality(CallsOf("apply_palette")) = 2
    /\ written # global_palette

\* A finished two-page run in per-page mode with two different palettes.
C6_WitnessPerPage ==
    /\ pc = "done"
    /\ ~options.global_palette
    /\ Len(images) = 2
    /\ \E a, b \in CallsOf("apply_palette") : calls[a].pal # calls[b].pal

\* C7 as stated: quantize applied to the result of quantize succeeds and
\* returns the same value.
C7_QuantizeTwice ==
    Done("quantize") =>
        /\ u_out.first.err = "none"
        /\ u_out.again.err = "none"
        /\ u_out.again.val.data = u_out.first.val.data

\* C7 amended: quantize of a uint8 value succeeds with a result in [0, 255]
\* of dtype int; quantize rejects that result as it is (its dtype
\* assertion), and applied to it cast back to uint8 returns the same value.
C7_QuantizeIdempotentOnUint8 ==
    Done("quantize") =>
        /\ u_out.first.err = "none"
        /\ u_out.first.val.dtype = "int"
        /\ \A c \in 1..3 : u_out.first.val.data[1][c] \in 0..255
        /\ u_out.again.err = "AssertionError"
        /\ u_out.recast.err = "none"
        /\ u_out.recast.val.data = u_out.first.val.data

\* 255 at one bit per channel: 192, again 192 after the cast back.
C7_Witness ==
    /\ Done("quantize")
    /\ u_in.x = 255
    /\ u_in.bits = 1
    /\ u_out.first.val.data[1][1] = 192
    /\ u_out.recast.val.data[1][1] = 192
    /\ u_out.again.err = "AssertionError"

\* The palette save_png holds after its saturate step.
Stretched ==
    IF u_in.saturate THEN Saturate(u_in.palette.data) ELSE u_in.palette.data

\* C8: with white_bg the palette written has index 0 equal to
\* (255, 255, 255), with or without saturate, and every other entry is what
\* the saturate step left.
C8_WhiteBackground ==
    (Done("save_png") /\ u_in.white_bg) =>
        /\ Len(u_out.written.data) = Len(u_in.palette.data)
        /\ u_out.written.data[1] = White
        /\ \A i \in 2..Len(u_in.palette.data) : u_out.written.data[i] = Stretched[i]

\* white_bg with saturate on a palette of two entries whose background is
\* not white and whose other entry the stretch changes.
C8_Witness ==
    /\ Done("save_png")
    /\ u_in.white_bg
    /\ u_in.saturate
    /\ Len(u_in.palette.data) = 2
    /\ u_in.palette.data[1] = Dark
    /\ u_out.written.data[1] = White
    /\ u_out.written.data[2] # u_in.palette.data[2]

\* C9: with saturate every channel of every entry is rescaled linearly
\* (truncated to an integer) so that the palette's global minimum maps to 0
\* and its global maximum to 255, every value stays in [0, 255],
\* [(10,10,10), (200,200,200)] becomes [(0,0,0), (255,255,255)], and a
\* palette whose maximum equals its minimum is left unchanged.  With
\* white_bg also set this is observed on the entries after index 0.
C9_Saturate ==
    (Done("save_png") /\ u_in.saturate) =>
        LET pal == u_in.palette.data
            out == u_out.written.data
            pmin == PaletteMin(pal)
            pmax == PaletteMax(pal)
            seen == {i \in 1..Len(pal) : i > 1 \/ ~u_in.white_bg}
        IN  /\ Len(out) = Len(pal)
            /\ \A i \in seen : \A c \in 1..3 :
                  /\ out[i][c] \in 0..255
                  /\ pmax = pmin => out[i][c] = pal[i][c]
                  /\ pmax > pmin =>
                        /\ out[i][c] * (pmax - pmin) <= 255 * (pal[i][c] - pmin)
                        /\ 255 * (pal[i][c] - pmin) < (out[i][c] + 1) * (pmax - pmin)
                        /\ pal[i][c] = pmin => out[i][c] = 0
                        /\ pal[i][c] = pmax => out[i][c] = 255
            /\ (pal = <<Dark, Light>> /\ ~u_in.white_bg) => out = <<Black, White>>

\* The palette [(10,10,10), (200,200,200)] stretched to [(0,0,0), (255,255,255)].
C9_Witness ==
    /\ Done("save_png")
    /\ u_in.saturate
    /\ ~u_in.white_bg
    /\ u_in.palette.data = <<Dark, Light>>
    /\ u_out.written.data = <<Black, White>>

\* C10: unpack_rgb(pack_rgb(rgb)) = rgb for 8-bit triples.
C10_PackRoundTrip ==
    Done("pack_rgb") =>
        /\ u_out.err = "none"
        /\ u_out.val.data = <<u_in.rgb>>

\* The triple (254, 1, 128) packed and unpacked.
C10_Witness ==
    /\ Done("pack_rgb")
    /\ u_in.rgb = <<254, 1, 128>>
    /\ u_out.val.data = <<<<254, 1, 128>>>>

=============================================================================
